---- MODULE Spec2Model ----
(***************************************************************************)
(* Model of package retry (src/retry.go): the Retry loop, the limiters     *)
(* Once, Forever, Counts, CancelableLimiter, UntilCanceled and the timers  *)
(* CancelableSleep, MultiplicativeBackoff, CancelableMultiplicativeBackoff.*)
(*                                                                         *)
(* One Retry invocation is a sequential process whose position is pc.  The *)
(* worker and the context are the caller's: the worker returns any result  *)
(* of the set `worker`, the context is canceled by the environment at any  *)
(* moment.  A time.Duration is a signed integer of DurBits bits and the    *)
(* product dur * 2 wraps as Go's signed arithmetic does.                   *)
(***************************************************************************)
EXTENDS Integers, Sequences, FiniteSets, TLC

VARIABLES
    worker,     \* the results the caller's Worker may return (Nil or an error)
    limiter,    \* the Limiter handed to Retry: [kind, cancelable, max]
    timer,      \* the Timer handed to Retry: [kind, base, ceil]
    c,          \* the counter captured by the Counts closure
    dur,        \* the delay captured by a backoff closure
    canceled,   \* whether ctx.Done() is closed
    tm,         \* the time.Timer of the running cancelable timer call
    pc,         \* where Retry is
    err,        \* Retry's local err
    ret,        \* the value Retry returned
    trace,      \* the calls made so far by the running Retry, in order
    runs,       \* the Retry invocations that returned before the running one
    loops,      \* Retry loops run at the same time with one limiter: where each
                \* is, the value of c it last read, its worker calls and the
                \* limiter calls that returned true to it
    overlap     \* whether two calls of the shared limiter have overlapped

vars == <<worker, limiter, timer, c, dur, canceled, tm, pc, err, ret, trace, runs,
          loops, overlap>>

----------------------------------------------------------------------------
(* Bounds of the model *)

\* worker invocations explored in one Retry
MaxCalls == 4
\* Retry invocations made one after the other with the same limiter and timer
MaxRuns == 2
\* the largest max given to Counts (the smallest is -1)
MaxCount == 3
\* distinct error values a worker may return
NumErrors == 2
\* width of a time.Duration in the model (int64 in the program)
DurBits == 4

----------------------------------------------------------------------------
(* Values *)

Nil == 0
Errors == 1..NumErrors
\* Retry has not returned: no value of the error type
NoRet == -1

\* the largest time.Duration
MaxDur == 2^(DurBits - 1) - 1

\* signed two's complement wrap-around of an integer into DurBits bits
Wrap(x) == ((x + 2^(DurBits - 1)) % 2^DurBits) - 2^(DurBits - 1)

B2I(b) == IF b THEN 1 ELSE 0

Event(ev, arg, res, done) ==
    [ev |-> ev, arg |-> arg, res |-> res, ctx |-> canceled, done |-> done]

\* the last event of the trace completed with result r
Complete(t, r) == [t EXCEPT ![Len(t)] = [@ EXCEPT !.res = r, !.done = TRUE]]

----------------------------------------------------------------------------
(* Limiters *)

\* a limiter meant to stop that lets the loop go on
OnceRetries(e) == TRUE

\* Once: func(_ error) bool { return false }
Once(e) == FALSE

\* a limiter meant to go on that stops the loop
ForeverStops(e) == FALSE

\* Forever: func(_ error) bool { return true }
Forever(e) == TRUE

\* a counter that starts over when the limiter stops the loop
CountsResets(cnt, max) ==
    IF cnt < max THEN [ok |-> TRUE, c |-> cnt + 1]
                 ELSE [ok |-> FALSE, c |-> 1]

\* the comparison off by one: for c <= max
CountsOffByOne(cnt, max) ==
    IF cnt <= max THEN [ok |-> TRUE, c |-> cnt + 1]
                  ELSE [ok |-> FALSE, c |-> cnt]

\* the c++ left out
CountsNoIncrement(cnt, max) == [ok |-> cnt < max, c |-> cnt]

\* Counts: for c < max { c++; return true }; return false
Counts(cnt, max) ==
    IF cnt < max THEN [ok |-> TRUE, c |-> cnt + 1]
                 ELSE [ok |-> FALSE, c |-> cnt]

\* a call of the limiter of the given kind, by its closure
Limiter(kind, e, cnt, max) ==
    CASE kind = "Once"    -> [ok |-> Once(e), c |-> cnt]
      [] kind = "Forever" -> [ok |-> Forever(e), c |-> cnt]
      [] kind = "Counts"  -> Counts(cnt, max)

\* the wrapped limiter evaluated before the context is looked at
CancelableLimiterInnerFirst(done, kind, e, cnt, max) ==
    LET r == Limiter(kind, e, cnt, max)
    IN  [ok |-> IF done THEN FALSE ELSE r.ok, c |-> r.c,
         inner |-> <<[arg |-> e, ok |-> r.ok]>>]

\* the select on ctx.Done() left out
CancelableLimiterNoCheck(done, kind, e, cnt, max) ==
    LET r == Limiter(kind, e, cnt, max)
    IN  [ok |-> r.ok, c |-> r.c, inner |-> <<[arg |-> e, ok |-> r.ok]>>]

\* CancelableLimiter: select { case <-ctx.Done(): return false; default: };
\* return limiter(err).  inner lists the calls made of the wrapped limiter.
CancelableLimiter(done, kind, e, cnt, max) ==
    IF done
    THEN [ok |-> FALSE, c |-> cnt, inner |-> <<>>]
    ELSE LET r == Limiter(kind, e, cnt, max)
         IN  [ok |-> r.ok, c |-> r.c, inner |-> <<[arg |-> e, ok |-> r.ok]>>]

\* Forever() returned without its wrapper
UntilCanceledUnwrapped == [kind |-> "Forever", cancelable |-> FALSE, max |-> 0]

\* UntilCanceled(ctx) = CancelableLimiter(ctx, Forever())
UntilCanceled == [kind |-> "Forever", cancelable |-> TRUE, max |-> 0]

\* the limiter called without its CancelableLimiter wrapper
CallLimiterUnwrapped(lim, done, e, cnt) ==
    LET r == Limiter(lim.kind, e, cnt, lim.max)
    IN  [ok |-> r.ok, c |-> r.c, inner |-> <<>>]

\* the call limiter(err) made by Retry
CallLimiter(lim, done, e, cnt) ==
    IF lim.cancelable
    THEN CancelableLimiter(done, lim.kind, e, cnt, lim.max)
    ELSE LET r == Limiter(lim.kind, e, cnt, lim.max)
         IN  [ok |-> r.ok, c |-> r.c, inner |-> <<>>]

----------------------------------------------------------------------------
(* Timers *)

\* the doubling without the clamp to ceil
MBEscalateNoClamp(d, ceil) == IF d # ceil THEN Wrap(d * 2) ELSE d

\* MultiplicativeBackoff: if dur != ceil { dur = dur * 2; if dur > ceil { dur = ceil } }
MBEscalate(d, ceil) ==
    IF d # ceil
    THEN LET d2 == Wrap(d * 2) IN IF d2 > ceil THEN ceil ELSE d2
    ELSE d

\* CancelableMultiplicativeBackoff: the same statement, after the select
CMBEscalate(d, ceil) ==
    IF d # ceil
    THEN LET d2 == Wrap(d * 2) IN IF d2 > ceil THEN ceil ELSE d2
    ELSE d

\* the call of timer.Stop() left out: the timer stays as it was
StopForgotten(t) == t

\* timer.Stop(): a pending timer is stopped, a fired one is left as it is
Stop(t) == IF t = "pending" THEN "stopped" ELSE t

----------------------------------------------------------------------------
(* Configurations *)

Limiters ==
    {[kind |-> k, cancelable |-> b, max |-> 0] :
        k \in {"Once", "Forever"}, b \in BOOLEAN}
    \cup
    {UntilCanceled}
    \cup
    {[kind |-> "Counts", cancelable |-> b, max |-> m] :
        b \in BOOLEAN, m \in (-1)..MaxCount}

\* the timers of the loop specification: one of each kind
LoopTimers ==
    {[kind |-> "CancelableSleep", base |-> 1, ceil |-> 1],
     [kind |-> "MultiplicativeBackoff", base |-> 1, ceil |-> 3],
     [kind |-> "CancelableMultiplicativeBackoff", base |-> 1, ceil |-> 3]}

\* every backoff timer with a base and a ceiling that are not negative
BackoffTimers ==
    {[kind |-> k, base |-> b, ceil |-> cl] :
        k \in {"MultiplicativeBackoff", "CancelableMultiplicativeBackoff"},
        b \in 0..MaxDur, cl \in 0..MaxDur}

\* the timers of the README's example: a cancelable sleep of some duration
SleepTimers ==
    {[kind |-> "CancelableSleep", base |-> d, ceil |-> d] : d \in 1..2}

\* the goroutines that run Retry at the same time with one limiter
Loops == {1, 2}

Start(w, l, t) ==
    /\ worker = w
    /\ limiter = l
    /\ timer = t
    /\ c = 1
    /\ dur = t.base
    /\ canceled = FALSE
    /\ tm = "none"
    /\ pc = "start"
    /\ err = Nil
    /\ ret = NoRet
    /\ trace = <<>>
    /\ runs = <<>>
    /\ loops = [i \in Loops |-> [pc |-> "start", reg |-> 0, calls |-> 0, trues |-> 0]]
    /\ overlap = FALSE

Init ==
    \E l \in Limiters, t \in LoopTimers : Start({Nil} \cup Errors, l, t)

----------------------------------------------------------------------------
(* Retry *)

WorkerCalls == Len(SelectSeq(trace, LAMBDA e : e.ev = "worker"))

\* err := worker() / err = worker(): the call
CallWorker ==
    /\ pc \in {"start", "again"}
    /\ WorkerCalls < MaxCalls
    /\ pc' = "worker"
    /\ trace' = Append(trace, Event("worker", Nil, Nil, FALSE))
    /\ UNCHANGED <<loops, overlap, runs, worker, limiter, timer, c, dur, canceled, tm, err, ret>>

\* err := worker() inside the loop: the result goes to a shadowing variable
\* and the loop's err keeps the first attempt's result
WorkerReturnsShadowed ==
    /\ pc = "worker"
    /\ \E r \in worker :
        /\ err' = IF WorkerCalls = 1 THEN r ELSE err
        /\ trace' = Complete(trace, r)
    /\ pc' = "cond"
    /\ UNCHANGED <<loops, overlap, runs, worker, limiter, timer, c, dur, canceled, tm, ret>>

\* the worker returns r, which is assigned to err
WorkerReturns ==
    /\ pc = "worker"
    /\ \E r \in worker :
        /\ err' = r
        /\ trace' = Complete(trace, r)
    /\ pc' = "cond"
    /\ UNCHANGED <<loops, overlap, runs, worker, limiter, timer, c, dur, canceled, tm, ret>>

\* the loop condition without its err != nil
FailedAlways(e) == TRUE

\* err != nil
Failed(e) == e # Nil

\* the next attempt made without the timer
AfterLimiterNoTimer(ok) == IF ok THEN "again" ELSE "return"

\* the timer called whatever the limiter said
AfterLimiterAlwaysTimer(ok) == "timer"

\* the loop body's first statement, timer(), is reached when limiter(err) is
\* true; otherwise the loop is left for return err
AfterLimiter(ok) == IF ok THEN "timer" ELSE "return"

\* the limiter handed the first attempt's error instead of the latest
LoopConditionFirstError ==
    /\ pc = "cond"
    /\ IF ~Failed(err)
       THEN /\ pc' = "return"
            /\ UNCHANGED <<c, trace>>
       ELSE LET first == trace[1].res
                r == CallLimiter(limiter, canceled, first, c)
                inner == [i \in 1..Len(r.inner) |->
                            Event("inner", r.inner[i].arg, B2I(r.inner[i].ok), TRUE)]
            IN  /\ c' = r.c
                /\ trace' = Append(trace, Event("limiter", first, B2I(r.ok), TRUE)) \o inner
                /\ pc' = AfterLimiter(r.ok)
    /\ UNCHANGED <<loops, overlap, runs, worker, limiter, timer, dur, canceled, tm, err, ret>>

\* for err != nil && limiter(err)
LoopCondition ==
    /\ pc = "cond"
    /\ IF ~Failed(err)
       THEN /\ pc' = "return"
            /\ UNCHANGED <<c, trace>>
       ELSE LET r == CallLimiter(limiter, canceled, err, c)
                inner == [i \in 1..Len(r.inner) |->
                            Event("inner", r.inner[i].arg, B2I(r.inner[i].ok), TRUE)]
            IN  /\ c' = r.c
                /\ trace' = Append(trace, Event("limiter", err, B2I(r.ok), TRUE)) \o inner
                /\ pc' = AfterLimiter(r.ok)
    /\ UNCHANGED <<loops, overlap, runs, worker, limiter, timer, dur, canceled, tm, err, ret>>

\* return err
Return ==
    /\ pc = "return"
    /\ ret' = err
    /\ pc' = "done"
    /\ UNCHANGED <<loops, overlap, runs, worker, limiter, timer, c, dur, canceled, tm, err, trace>>

----------------------------------------------------------------------------
(* The context and the runtime's timer *)

\* the caller cancels the context (within the calls explored)
Cancel ==
    /\ ~canceled
    /\ pc # "done"
    /\ WorkerCalls < MaxCalls
    /\ canceled' = TRUE
    /\ UNCHANGED <<loops, overlap, runs, worker, limiter, timer, c, dur, tm, pc, err, ret, trace>>

\* the duration of the pending time.Timer elapses: timer.C becomes ready
TimerFires ==
    /\ tm = "pending"
    /\ tm' = "fired"
    /\ UNCHANGED <<loops, overlap, runs, worker, limiter, timer, c, dur, canceled, pc, err, ret, trace>>

----------------------------------------------------------------------------
(* CancelableSleep *)

\* timer := time.NewTimer(dur)
CSArm ==
    /\ pc = "timer"
    /\ timer.kind = "CancelableSleep"
    /\ tm' = "pending"
    /\ trace' = Append(trace, Event("timer", timer.base, 0, FALSE))
    /\ pc' = "select"
    /\ UNCHANGED <<loops, overlap, runs, worker, limiter, timer, c, dur, canceled, err, ret>>

\* case <-timer.C: return
CSTimerC ==
    /\ pc = "select"
    /\ timer.kind = "CancelableSleep"
    /\ tm = "fired"
    /\ trace' = Complete(trace, 1)
    /\ pc' = "again"
    /\ UNCHANGED <<loops, overlap, runs, worker, limiter, timer, c, dur, canceled, tm, err, ret>>

\* case <-ctx.Done(): timer.Stop(); return
CSCtxDone ==
    /\ pc = "select"
    /\ timer.kind = "CancelableSleep"
    /\ canceled
    /\ tm' = Stop(tm)
    /\ trace' = Complete(trace, 2)
    /\ pc' = "again"
    /\ UNCHANGED <<loops, overlap, runs, worker, limiter, timer, c, dur, canceled, err, ret>>

----------------------------------------------------------------------------
(* MultiplicativeBackoff *)

\* time.Sleep(dur): the sleep begins
MBSleep ==
    /\ pc = "timer"
    /\ timer.kind = "MultiplicativeBackoff"
    /\ trace' = Append(trace, Event("timer", dur, 0, FALSE))
    /\ pc' = "sleep"
    /\ UNCHANGED <<loops, overlap, runs, worker, limiter, timer, c, dur, canceled, tm, err, ret>>

\* the sleep ends, then the delay is doubled and clamped
MBWake ==
    /\ pc = "sleep"
    /\ timer.kind = "MultiplicativeBackoff"
    /\ dur' = MBEscalate(dur, timer.ceil)
    /\ trace' = Complete(trace, 1)
    /\ pc' = "again"
    /\ UNCHANGED <<loops, overlap, runs, worker, limiter, timer, c, canceled, tm, err, ret>>

----------------------------------------------------------------------------
(* CancelableMultiplicativeBackoff *)

\* timer := time.NewTimer(dur)
CMBArm ==
    /\ pc = "timer"
    /\ timer.kind = "CancelableMultiplicativeBackoff"
    /\ tm' = "pending"
    /\ trace' = Append(trace, Event("timer", dur, 0, FALSE))
    /\ pc' = "select"
    /\ UNCHANGED <<loops, overlap, runs, worker, limiter, timer, c, dur, canceled, err, ret>>

\* case <-timer.C: then the delay is doubled and clamped
CMBTimerC ==
    /\ pc = "select"
    /\ timer.kind = "CancelableMultiplicativeBackoff"
    /\ tm = "fired"
    /\ dur' = CMBEscalate(dur, timer.ceil)
    /\ trace' = Complete(trace, 1)
    /\ pc' = "again"
    /\ UNCHANGED <<loops, overlap, runs, worker, limiter, timer, c, canceled, tm, err, ret>>

\* a return after timer.Stop(), as CancelableSleep has it: no escalation
CMBCtxDoneNoEscalate ==
    /\ pc = "select"
    /\ timer.kind = "CancelableMultiplicativeBackoff"
    /\ canceled
    /\ tm' = Stop(tm)
    /\ trace' = Complete(trace, 2)
    /\ pc' = "again"
    /\ UNCHANGED <<loops, overlap, runs, worker, limiter, timer, c, dur, canceled, err, ret>>

\* case <-ctx.Done(): timer.Stop(); then the delay is doubled and clamped
CMBCtxDone ==
    /\ pc = "select"
    /\ timer.kind = "CancelableMultiplicativeBackoff"
    /\ canceled
    /\ tm' = Stop(tm)
    /\ dur' = CMBEscalate(dur, timer.ceil)
    /\ trace' = Complete(trace, 2)
    /\ pc' = "again"
    /\ UNCHANGED <<loops, overlap, runs, worker, limiter, timer, c, canceled, err, ret>>

----------------------------------------------------------------------------

Next ==
    \/ CallWorker
    \/ WorkerReturns
    \/ LoopCondition
    \/ Return
    \/ Cancel
    \/ TimerFires
    \/ CSArm
    \/ CSTimerC
    \/ CSCtxDone
    \/ MBSleep
    \/ MBWake
    \/ CMBArm
    \/ CMBTimerC
    \/ CMBCtxDone

Spec == Init /\ [][Next]_vars

----------------------------------------------------------------------------
(* The backoff timers over every base and ceiling, driven by a loop that   *)
(* retries for as long as the worker fails.                                *)

InitBackoff ==
    \E t \in BackoffTimers :
        Start({Nil, 1}, [kind |-> "Forever", cancelable |-> FALSE, max |-> 0], t)

NextBackoff ==
    \/ CallWorker
    \/ WorkerReturns
    \/ LoopCondition
    \/ Return
    \/ Cancel
    \/ TimerFires
    \/ MBSleep
    \/ MBWake
    \/ CMBArm
    \/ CMBTimerC
    \/ CMBCtxDone

SpecBackoff == InitBackoff /\ [][NextBackoff]_vars

----------------------------------------------------------------------------
(* The README's example: Retry(work, UntilCanceled(ctx),                   *)
(* CancelableSleep(ctx, d)) with a worker that fails every time.  Retry,   *)
(* the worker and the runtime's timer keep running; nothing obliges the    *)
(* caller to cancel.                                                       *)

InitExample ==
    \E w \in (SUBSET Errors) \ {{}}, t \in SleepTimers :
        Start(w, UntilCanceled, t)

NextExample ==
    \/ CallWorker
    \/ WorkerReturns
    \/ LoopCondition
    \/ Return
    \/ Cancel
    \/ TimerFires
    \/ CSArm
    \/ CSTimerC
    \/ CSCtxDone

LiveSpec ==
    /\ InitExample
    /\ [][NextExample]_vars
    /\ WF_vars(CallWorker)
    /\ WF_vars(WorkerReturns)
    /\ WF_vars(LoopCondition)
    /\ WF_vars(Return)
    /\ WF_vars(TimerFires)
    /\ WF_vars(CSArm)
    /\ WF_vars(CSTimerC)
    /\ WF_vars(CSCtxDone)

----------------------------------------------------------------------------
(* A limiter and a timer used again: the caller calls Retry once more with *)
(* the closures of the invocation that has returned.                       *)

\* Retry(worker, limiter, timer) called again: the closures keep c and dur
RetryAgain ==
    /\ pc = "done"
    /\ Len(runs) + 1 < MaxRuns
    /\ runs' = Append(runs,
                  [calls |-> WorkerCalls, ret |-> ret, c |-> c,
                   stopped |-> \E i \in 1..Len(trace) :
                                  trace[i].ev = "limiter" /\ trace[i].res = 0])
    /\ pc' = "start"
    /\ err' = Nil
    /\ ret' = NoRet
    /\ trace' = <<>>
    /\ UNCHANGED <<loops, overlap, worker, limiter, timer, c, dur, canceled, tm>>

InitReuse ==
    \E m \in (-1)..MaxCount :
        Start({Nil} \cup Errors,
              [kind |-> "Counts", cancelable |-> FALSE, max |-> m],
              [kind |-> "MultiplicativeBackoff", base |-> 1, ceil |-> 3])

NextReuse ==
    \/ CallWorker
    \/ WorkerReturns
    \/ LoopCondition
    \/ Return
    \/ MBSleep
    \/ MBWake
    \/ RetryAgain

SpecReuse == InitReuse /\ [][NextReuse]_vars

----------------------------------------------------------------------------
(* One Counts limiter shared by Retry loops that run at the same time, over *)
(* workers that fail every time.  The closure's c is read and written with  *)
(* no synchronisation: the read of c < max, the comparison, and the read    *)
(* and the write of c++ are steps of their own.                             *)

single == <<worker, limiter, timer, dur, canceled, tm, pc, err, ret, trace, runs>>

\* err = worker(), which returns an error
SharedCallWorker(i) ==
    /\ loops[i].pc \in {"start", "again"}
    /\ loops[i].calls < MaxCalls
    /\ loops' = [loops EXCEPT ![i].pc = "cond", ![i].calls = @ + 1]
    /\ UNCHANGED <<single, c, overlap>>

\* limiter(err) begins: c is read for c < max
SharedRead(i) ==
    /\ loops[i].pc = "cond"
    /\ loops' = [loops EXCEPT ![i].pc = "cmp", ![i].reg = c]
    /\ overlap' = (overlap \/ \E j \in Loops \ {i} : loops[j].pc \in {"cmp", "incr", "store"})
    /\ UNCHANGED <<single, c>>

\* the comparison off by one: c <= max
SharedCompareOffByOne(i) ==
    /\ loops[i].pc = "cmp"
    /\ loops' = [loops EXCEPT ![i].pc = IF loops[i].reg <= limiter.max THEN "incr" ELSE "return"]
    /\ UNCHANGED <<single, c, overlap>>

\* c < max, on the value read: the loop body of Counts, or return false
SharedCompare(i) ==
    /\ loops[i].pc = "cmp"
    /\ loops' = [loops EXCEPT ![i].pc = IF loops[i].reg < limiter.max THEN "incr" ELSE "return"]
    /\ UNCHANGED <<single, c, overlap>>

\* c++: c is read
SharedLoad(i) ==
    /\ loops[i].pc = "incr"
    /\ loops' = [loops EXCEPT ![i].pc = "store", ![i].reg = c]
    /\ UNCHANGED <<single, c, overlap>>

\* c++: c is written; return true
SharedStore(i) ==
    /\ loops[i].pc = "store"
    /\ c' = loops[i].reg + 1
    /\ loops' = [loops EXCEPT ![i].pc = "timer", ![i].trues = @ + 1]
    /\ UNCHANGED <<single, overlap>>

\* timer()
SharedTimer(i) ==
    /\ loops[i].pc = "timer"
    /\ loops' = [loops EXCEPT ![i].pc = "again"]
    /\ UNCHANGED <<single, c, overlap>>

\* return err
SharedReturn(i) ==
    /\ loops[i].pc = "return"
    /\ loops' = [loops EXCEPT ![i].pc = "done"]
    /\ UNCHANGED <<single, c, overlap>>

InitShared ==
    \E m \in (-1)..MaxCount :
        Start(Errors,
              [kind |-> "Counts", cancelable |-> FALSE, max |-> m],
              [kind |-> "MultiplicativeBackoff", base |-> 1, ceil |-> 3])

NextShared ==
    \E i \in Loops :
        \/ SharedCallWorker(i)
        \/ SharedRead(i)
        \/ SharedCompare(i)
        \/ SharedLoad(i)
        \/ SharedStore(i)
        \/ SharedTimer(i)
        \/ SharedReturn(i)

SpecShared == InitShared /\ [][NextShared]_vars

----------------------------------------------------------------------------
(* What a run has done so far, read off the trace *)

Max(a, b) == IF a >= b THEN a ELSE b
Min(a, b) == IF a <= b THEN a ELSE b

WorkerEvents == SelectSeq(trace, LAMBDA e : e.ev = "worker")
LimiterEvents == SelectSeq(trace, LAMBDA e : e.ev = "limiter")
TimerEvents == SelectSeq(trace, LAMBDA e : e.ev = "timer")
\* the calls Retry itself makes (not those a limiter makes of the one it wraps)
LoopTrace == SelectSeq(trace, LAMBDA e : e.ev # "inner")

\* the worker calls that have returned
Returned == SelectSeq(WorkerEvents, LAMBDA e : e.done)
\* no worker call has succeeded, and at least one has returned
AllFailed == Len(Returned) >= 1 /\ \A i \in 1..Len(Returned) : Returned[i].res # Nil
\* the first worker call has returned r
FirstReturned(r) == Len(trace) >= 1 /\ trace[1].done /\ trace[1].res = r
FirstFailed == Len(trace) >= 1 /\ trace[1].done /\ trace[1].res # Nil
InTimer == pc \in {"timer", "select", "sleep"}

----------------------------------------------------------------------------
(* Properties of the loop, under Spec *)

\* C1: when the first worker call succeeds, Retry has called the worker once
\* and nothing else (no limiter, no timer), whatever the limiter and the timer,
\* and what it returns is nil.
C1_FirstSuccess ==
    FirstReturned(Nil) =>
        /\ Len(trace) = 1
        /\ pc \in {"cond", "return", "done"}
        /\ pc = "done" => ret = Nil

C1_Witness == FirstReturned(Nil) /\ pc = "done" /\ ret = Nil

\* C2: with Counts(N) and a worker that fails every time, Retry returns after
\* exactly N worker calls when N >= 1 and exactly one when N <= 1, and returns
\* the error of the last call; it never makes more calls than that.
C2_CountsAttempts ==
    (limiter.kind = "Counts" /\ ~limiter.cancelable) =>
        /\ WorkerCalls <= Max(limiter.max, 1)
        /\ (pc = "done" /\ AllFailed) =>
              /\ WorkerCalls = Max(limiter.max, 1)
              /\ ret = WorkerEvents[WorkerCalls].res

C2_Witness ==
    /\ limiter.kind = "Counts" /\ ~limiter.cancelable /\ limiter.max = MaxCount
    /\ pc = "done" /\ AllFailed /\ WorkerCalls = MaxCount

\* C3: the calls of one Retry are ordered worker, then (limiter, timer,
\* worker) repeated: the first call is a worker call; a limiter call comes
\* right after a worker call that failed; a timer call comes right after a
\* limiter call that returned true and is followed by a worker call, made once
\* the timer has returned; a later worker call comes right after a timer call.
C3_Order ==
    LET t == LoopTrace
    IN  /\ (pc = "start") <=> (t = <<>>)
        /\ \A i \in 1..Len(t) :
            /\ i = 1 => t[i].ev = "worker"
            /\ (t[i].ev = "worker" /\ i > 1) => t[i-1].ev = "timer" /\ t[i-1].done
            /\ t[i].ev = "limiter" =>
                  /\ i > 1
                  /\ t[i-1].ev = "worker" /\ t[i-1].done /\ t[i-1].res # Nil
            /\ t[i].ev = "timer" =>
                  /\ i > 1
                  /\ t[i-1].ev = "limiter" /\ t[i-1].res = 1
                  /\ i < Len(t) => t[i+1].ev = "worker"

C3_Witness ==
    /\ Len(TimerEvents) >= 2
    /\ Len(LimiterEvents) >= 3
    /\ pc = "done"

\* C4: what Retry returns is the result of its last worker call: nil when that
\* call succeeded, else the error that call returned, not an earlier one.
C4_LastResult ==
    pc = "done" =>
        /\ WorkerCalls >= 1
        /\ WorkerEvents[WorkerCalls].done
        /\ ret = WorkerEvents[WorkerCalls].res

C4_Witness ==
    /\ pc = "done"
    /\ WorkerCalls >= 3
    /\ WorkerEvents[1].res # Nil
    /\ WorkerEvents[WorkerCalls].res # Nil
    /\ WorkerEvents[WorkerCalls].res # WorkerEvents[1].res
    /\ ret = WorkerEvents[WorkerCalls].res

\* C5: with Once() and a worker that fails, Retry calls the worker once, never
\* the timer, and returns that failure.
C5_Once ==
    (limiter.kind = "Once" /\ ~limiter.cancelable /\ FirstFailed) =>
        /\ WorkerCalls = 1
        /\ TimerEvents = <<>>
        /\ ~InTimer
        /\ pc = "done" => ret = trace[1].res

C5_Witness ==
    /\ limiter.kind = "Once" /\ ~limiter.cancelable
    /\ FirstFailed /\ pc = "done" /\ ret = trace[1].res

\* C6: a call of CancelableLimiter(ctx, inner) made when ctx is canceled
\* returns false without calling inner, whose counter stays as it was; a call
\* made when ctx is not canceled calls inner once, with the same error, and
\* returns what inner returned, inner's counter moving as one call moves it.
C6_Calls ==
    limiter.cancelable =>
        \A i \in 1..Len(trace) :
            trace[i].ev = "limiter" =>
                IF trace[i].ctx
                THEN /\ trace[i].res = 0
                     /\ i < Len(trace) => trace[i+1].ev # "inner"
                ELSE /\ i < Len(trace)
                     /\ trace[i+1].ev = "inner"
                     /\ trace[i+1].arg = trace[i].arg
                     /\ trace[i+1].res = trace[i].res
                     /\ i + 1 < Len(trace) => trace[i+2].ev # "inner"

C6_Frame ==
    (limiter.cancelable /\ pc = "cond" /\ pc' # "cond" /\ Failed(err)) =>
        IF canceled
        THEN c' = c
        ELSE c' = Limiter(limiter.kind, err, c, limiter.max).c

C6_CancelableLimiter == [](C6_Calls) /\ [][C6_Frame]_vars

C6_Witness ==
    /\ limiter.cancelable /\ limiter.kind = "Counts"
    /\ c < limiter.max
    /\ c = 2
    /\ \E i \in 1..Len(trace) :
          trace[i].ev = "limiter" /\ trace[i].ctx /\ trace[i].res = 0

\* C7: when ctx is canceled before Retry starts and the limiter is
\* UntilCanceled(ctx), a worker that fails is called once, the timer never,
\* and Retry returns that failure.
C7_CanceledBefore ==
    (limiter = UntilCanceled /\ FirstFailed /\ trace[1].ctx) =>
        /\ WorkerCalls = 1
        /\ TimerEvents = <<>>
        /\ ~InTimer
        /\ pc = "done" => ret = trace[1].res

C7_Witness ==
    /\ limiter = UntilCanceled /\ FirstFailed /\ trace[1].ctx
    /\ pc = "done" /\ ret = trace[1].res

----------------------------------------------------------------------------
(* The README's example, under LiveSpec *)

\* C8: in Retry(worker, UntilCanceled(ctx), CancelableSleep(ctx, d)) with a
\* worker that fails every time, Retry does not leave its loop while ctx is
\* not canceled, and once ctx is canceled Retry returns, with the error of
\* its last worker call.
C8_Safe ==
    /\ pc \in {"return", "done"} => canceled
    /\ pc = "done" => (ret # Nil /\ ret = WorkerEvents[WorkerCalls].res)

C8_UntilCanceled == [](C8_Safe) /\ (canceled ~> pc = "done")

C8_Witness ==
    /\ canceled /\ pc = "done" /\ WorkerCalls >= 3
    /\ Len(TimerEvents) >= 2
    /\ ret = WorkerEvents[WorkerCalls].res

----------------------------------------------------------------------------
(* The backoff schedule, under SpecBackoff *)

\* timer calls that have returned
Completed == Len(SelectSeq(TimerEvents, LAMBDA e : e.done))

\* the delay of the k-th call of MultiplicativeBackoff(base, ceil), by its code
RECURSIVE MBSchedule(_, _, _)
MBSchedule(base, ceil, k) ==
    IF k <= 1 THEN base ELSE MBEscalate(MBSchedule(base, ceil, k - 1), ceil)

\* C9: for 0 < base <= ceil the k-th call of MultiplicativeBackoff(base, ceil)
\* sleeps min(base * 2^(k-1), ceil), and the delay kept for the next call,
\* which changes only when a call's sleep is over, is min(base * 2^n, ceil)
\* after n calls: doubled each time and held at ceil once there.
C9_Schedule ==
    (timer.kind = "MultiplicativeBackoff" /\ 0 < timer.base /\ timer.base <= timer.ceil) =>
        /\ \A k \in 1..Len(TimerEvents) :
              TimerEvents[k].arg = Min(timer.base * 2^(k-1), timer.ceil)
        /\ dur = Min(timer.base * 2^Completed, timer.ceil)

\* the same schedule where no doubling can leave the range of a duration:
\* ceilings of at most half the range
C9_ScheduleInRange ==
    (2 * timer.ceil <= MaxDur + 1) => C9_Schedule

\* C10: CancelableMultiplicativeBackoff arms in its k-th call the delay that
\* MultiplicativeBackoff sleeps in its k-th call, and each of its calls, ended
\* by the timer or by cancellation, escalates the delay exactly once.
C10_SameSchedule ==
    /\ \A k \in 1..Len(TimerEvents) :
          TimerEvents[k].arg = MBSchedule(timer.base, timer.ceil, k)
    /\ dur = MBSchedule(timer.base, timer.ceil, Completed + 1)

C10_Witness ==
    /\ timer.kind = "CancelableMultiplicativeBackoff"
    /\ \E j, k \in 1..Len(TimerEvents) :
          /\ j < k /\ k < Len(TimerEvents)
          /\ TimerEvents[j].res = 1
          /\ TimerEvents[k].res = 2
          /\ TimerEvents[k].arg > 0
          /\ TimerEvents[k+1].arg = 2 * TimerEvents[k].arg

----------------------------------------------------------------------------
(* The cancelable timers' select, under Spec *)

\* a cancelable timer call returns, by either case of its select
TimerReturn == CSTimerC \/ CSCtxDone \/ CMBTimerC \/ CMBCtxDone

\* C11: a call of a CancelableSleep or CancelableMultiplicativeBackoff timer
\* can return as soon as its timer has fired or ctx is canceled and returns
\* by nothing else; when it has returned, the time.Timer it created is not
\* pending: it has fired or it has been stopped.  A call that ends by
\* cancellation may end with its timer never fired.
C11_State ==
    /\ tm = "pending" => pc = "select"
    /\ pc = "select" => tm \in {"pending", "fired"}
    /\ (pc = "select" /\ (tm = "fired" \/ canceled)) => ENABLED TimerReturn
    /\ (pc = "select" /\ tm = "pending" /\ ~canceled) => ~ENABLED TimerReturn
    /\ \A k \in 1..Len(TimerEvents) :
          (TimerEvents[k].done /\ TimerEvents[k].res = 2) => canceled

C11_Step ==
    (pc = "select" /\ pc' # "select") =>
        /\ tm = "fired" \/ canceled
        /\ tm' \in {"fired", "stopped"}
        /\ pc' = "again"

C11_TimerReleased == [](C11_State) /\ [][C11_Step]_vars

C11_Witness ==
    /\ pc = "again"
    /\ tm = "stopped"
    /\ Len(TimerEvents) >= 1
    /\ LET e == TimerEvents[Len(TimerEvents)]
       IN  e.ctx /\ e.done /\ e.res = 2

----------------------------------------------------------------------------
(* Call counts of one Retry, under Spec *)

Count(seq, P(_)) == Len(SelectSeq(seq, P))

\* worker calls that returned an error
FailedReturns == Count(WorkerEvents, LAMBDA e : e.done /\ e.res # Nil)
\* limiter calls that returned true
LimiterTrue == Count(LimiterEvents, LAMBDA e : e.res = 1)

\* the limiter is called once per failed worker call and never after a
\* success; the timer is called once per limiter call that returned true and
\* never after one that returned false; at return #worker = #timer + 1
C12_PerCall ==
    /\ Len(LimiterEvents) = FailedReturns - (IF pc = "cond" /\ Failed(err) THEN 1 ELSE 0)
    /\ Len(TimerEvents) = LimiterTrue - (IF pc = "timer" THEN 1 ELSE 0)
    /\ \A i \in 1..Len(LoopTrace) :
          LET e == LoopTrace[i]
          IN  /\ (e.ev = "worker" /\ e.done /\ e.res = Nil) => i = Len(LoopTrace)
              /\ (e.ev = "limiter" /\ e.res = 0) => i = Len(LoopTrace)
    /\ pc = "done" =>
          /\ Completed = Len(TimerEvents)
          /\ WorkerCalls = Len(TimerEvents) + 1

\* C12 as stated: the counts above, and at every point of the invocation,
\* from its first worker call on, the number of worker calls started is the
\* number of timer calls completed plus one.
C12_Original ==
    /\ C12_PerCall
    /\ WorkerCalls >= 1 => WorkerCalls = Completed + 1

\* C12: the counts above, and the number of worker calls started is the
\* number of timer calls completed plus one from the start of a worker call
\* until the next timer call returns; before the first worker call and
\* between a timer call's return and the next worker call the two are equal.
C12_Counts ==
    /\ C12_PerCall
    /\ WorkerCalls = Completed + (IF pc \in {"start", "again"} THEN 0 ELSE 1)

C12_Witness ==
    /\ pc = "again"
    /\ WorkerCalls = 2
    /\ Completed = 2
    /\ Len(LimiterEvents) = 2

----------------------------------------------------------------------------
(* Cancellation and the loop, under Spec *)

\* no worker call has succeeded
NoSuccess == \A i \in 1..Len(WorkerEvents) : WorkerEvents[i].res = Nil => ~WorkerEvents[i].done

\* C13: with the limiter Forever() and a cancelable timer, Retry over a worker
\* that fails every time never reaches its return, before or after ctx is
\* canceled: a timer call ended by cancellation is followed by the next
\* worker call like any other.
C13_State ==
    (limiter.kind = "Forever" /\ ~limiter.cancelable /\ NoSuccess
        /\ timer.kind \in {"CancelableSleep", "CancelableMultiplicativeBackoff"}) =>
        /\ pc \notin {"return", "done"}
        /\ ret = NoRet
        /\ \A k \in 1..Len(LimiterEvents) : LimiterEvents[k].res = 1
        /\ (pc = "select" /\ canceled) => ENABLED TimerReturn
        /\ (pc = "cond" /\ canceled) => ENABLED LoopCondition

C13_Step ==
    (limiter.kind = "Forever" /\ ~limiter.cancelable /\ canceled /\ pc = "cond" /\ Failed(err)) =>
        pc' \in {"cond", "timer"}

C13_NeverReturns == [](C13_State) /\ [][C13_Step]_vars

\* two whole cycles made after the cancellation
C13_Witness ==
    /\ limiter.kind = "Forever" /\ ~limiter.cancelable /\ NoSuccess
    /\ timer.kind = "CancelableSleep"
    /\ Len(TimerEvents) >= 2
    /\ TimerEvents[1].ctx /\ TimerEvents[1].res = 2
    /\ TimerEvents[2].ctx /\ TimerEvents[2].res = 2
    /\ WorkerCalls = 3
    /\ pc = "timer"

\* C14: with a limiter CancelableLimiter(ctx, inner), whatever inner and the
\* timer, at most one worker call begins after ctx is canceled; the
\* cancellation changes nothing of Retry (a worker call in flight goes on and
\* returns), and every limiter call made after it returns false, which ends
\* the loop.
C14_State ==
    limiter.cancelable =>
        /\ Count(WorkerEvents, LAMBDA e : e.ctx) <= 1
        /\ \A k \in 1..Len(LimiterEvents) :
              LimiterEvents[k].ctx =>
                  /\ LimiterEvents[k].res = 0
                  /\ k = Len(LimiterEvents)
                  /\ pc \in {"return", "done"}
        /\ (pc = "worker" /\ canceled) => ENABLED WorkerReturns

C14_Step ==
    (~canceled /\ canceled') => (pc' = pc /\ trace' = trace /\ err' = err /\ c' = c)

C14_BoundedResponse == [](C14_State) /\ [][C14_Step]_vars

\* canceled during a timer call: one more worker call, then the loop ends
C14_Witness ==
    /\ limiter.cancelable /\ limiter.kind = "Forever"
    /\ pc = "done"
    /\ WorkerCalls = 3
    /\ ~WorkerEvents[2].ctx
    /\ WorkerEvents[3].ctx
    /\ LimiterEvents[Len(LimiterEvents)].res = 0

----------------------------------------------------------------------------
(* The counter of Counts, under Spec *)

\* Retry is between a limiter call that returned true and the next worker call
Approved == pc \in {"timer", "select", "sleep", "again"}

\* with Counts(N) and a worker that first succeeds on its k-th call, Retry
\* makes min(k, max(N,1)) worker calls and returns nil exactly when
\* k <= max(N,1); the counter never exceeds max(N,1)
C15_Attempts ==
    LET M == Max(limiter.max, 1)
        n == WorkerCalls
    IN  /\ 1 <= c /\ c <= M
        /\ n <= M
        /\ \A i \in 1..(n - 1) : WorkerEvents[i].done /\ WorkerEvents[i].res # Nil
        /\ pc = "done" =>
              /\ ret = WorkerEvents[n].res
              /\ ret # Nil => n = M

\* C15 as stated: the above, and the counter equals the number of worker calls
\* made so far whenever the limiter has just returned true.
C15_Original ==
    (limiter.kind = "Counts" /\ ~limiter.cancelable) =>
        /\ C15_Attempts
        /\ pc = "timer" => c = WorkerCalls

\* C15: the above, and the counter is one more than the number of worker calls
\* made so far whenever the limiter has just returned true, until the next
\* worker call is made (and before the first); from then on, until the
\* limiter returns true again, it equals that number.
C15_Counter ==
    (limiter.kind = "Counts" /\ ~limiter.cancelable) =>
        /\ C15_Attempts
        /\ c = WorkerCalls + (IF Approved \/ pc = "start" THEN 1 ELSE 0)

C15_Witness ==
    /\ limiter.kind = "Counts" /\ ~limiter.cancelable /\ limiter.max = MaxCount
    /\ pc = "done" /\ ret = Nil
    /\ WorkerCalls = MaxCount
    /\ c = MaxCount

----------------------------------------------------------------------------
(* The limiter's argument, under Spec *)

\* C16: the error handed to each limiter call is the error returned by the
\* worker call just before it, the latest attempt's.
C16_LimiterArg ==
    \A i \in 1..Len(LoopTrace) :
        LoopTrace[i].ev = "limiter" =>
            /\ i > 1
            /\ LoopTrace[i-1].ev = "worker"
            /\ LoopTrace[i-1].done
            /\ LoopTrace[i].arg = LoopTrace[i-1].res
            /\ LoopTrace[i].arg # Nil

\* two limiter calls, handed different errors
C16_Witness ==
    /\ Len(LimiterEvents) >= 2
    /\ LimiterEvents[1].arg # LimiterEvents[2].arg
    /\ LimiterEvents[2].arg = WorkerEvents[2].res

----------------------------------------------------------------------------
(* The ceiling, under SpecBackoff *)

\* C19 as stated: for every base >= 0 and ceil >= 0, base > ceil included, no
\* call of a backoff timer sleeps, or arms its timer for, longer than ceil.
C19_Original ==
    \A k \in 1..Len(TimerEvents) : TimerEvents[k].arg <= timer.ceil

\* C19: for every base >= 0 and ceil >= 0 the first call of a backoff timer
\* sleeps, or arms its timer for, base, which may be longer than ceil; no
\* later call does so for longer than ceil, and with base <= ceil no call does.
C19_Ceiling ==
    /\ \A k \in 1..Len(TimerEvents) :
          TimerEvents[k].arg <= (IF k = 1 THEN Max(timer.base, timer.ceil) ELSE timer.ceil)
    /\ Len(TimerEvents) >= 1 => TimerEvents[1].arg = timer.base
    /\ Completed >= 1 => dur <= timer.ceil

C19_Witness ==
    /\ timer.base > timer.ceil
    /\ Len(TimerEvents) >= 3
    /\ TimerEvents[1].arg = timer.base
    /\ TimerEvents[2].arg = timer.ceil
    /\ TimerEvents[3].arg = timer.ceil

\* C20: for 0 < base <= ceil the delay of a backoff timer is positive, no call
\* is armed with less than the call before it, and the delay is ceil after
\* finitely many calls: after DurBits - 1 of them at the latest, when
\* base * 2^n is beyond every duration; durations being of DurBits bits, with
\* dur * 2 wrapping, and ceil up to the largest duration.
C20_Monotone ==
    (0 < timer.base /\ timer.base <= timer.ceil) =>
        /\ dur > 0
        /\ \A k \in 1..(Len(TimerEvents) - 1) :
              TimerEvents[k].arg <= TimerEvents[k+1].arg
        /\ Completed >= DurBits - 1 => dur = timer.ceil

\* the same for ceilings of at most half the range, where no doubling wraps
C20_MonotoneInRange ==
    (2 * timer.ceil <= MaxDur + 1) => C20_Monotone

----------------------------------------------------------------------------
(* A Counts limiter used again, under SpecReuse *)

\* some call of the Counts limiter has returned false
Exhausted ==
    \/ \E k \in 1..Len(runs) : runs[k].stopped
    \/ \E i \in 1..Len(LimiterEvents) : LimiterEvents[i].res = 0

\* C17: once a call of a Counts(N) limiter has returned false, every later
\* call returns false and its counter stays as it is; a Retry given a Counts
\* limiter that an earlier Retry has used up makes exactly one worker call
\* (and no timer call) however large N is.
C17_State ==
    /\ Exhausted => c >= limiter.max
    /\ \A k \in 1..Len(runs) :
          runs[k].stopped =>
              /\ c = runs[k].c
              /\ \A i \in 1..Len(LimiterEvents) : LimiterEvents[i].res = 0
              /\ TimerEvents = <<>>
              /\ WorkerCalls <= 1
              /\ pc = "done" => WorkerCalls = 1

C17_Step == Exhausted => c' = c

C17_Exhausted == [](C17_State) /\ [][C17_Step]_vars

\* a first Retry that used up the N attempts, a second that made one
C17_Witness ==
    /\ limiter.max = MaxCount
    /\ Len(runs) = 1
    /\ runs[1].stopped /\ runs[1].calls = MaxCount /\ runs[1].ret # Nil
    /\ pc = "done"
    /\ WorkerCalls = 1
    /\ ret # Nil
    /\ Len(LimiterEvents) = 1

----------------------------------------------------------------------------
(* A Counts limiter shared by two loops, under SpecShared *)

\* limiter calls that returned true, and worker calls, of all the loops
TotalTrue == loops[1].trues + loops[2].trues
TotalCalls == loops[1].calls + loops[2].calls

\* C18: two Retry loops that run at the same time over failing workers and
\* share one Counts(N) are held to N - 1 limiter calls returning true, and
\* N + 1 worker calls, only as long as no two limiter calls overlap; with the
\* limiter's read, comparison and increment interleaved, the limiter returns
\* true more than N - 1 times and the loops make more than N + 1 worker calls
\* (C18_Witness).
C18_Shared ==
    /\ ~overlap =>
          /\ TotalTrue <= Max(limiter.max - 1, 0)
          /\ TotalCalls <= Max(limiter.max - 1, 0) + 2
          /\ c = 1 + TotalTrue
    /\ \A i \in Loops :
          loops[i].calls = loops[i].trues
                + (IF loops[i].pc \in {"start", "timer", "again"} THEN 0 ELSE 1)

C18_Witness ==
    /\ limiter.max >= 2
    /\ \A i \in Loops : loops[i].pc = "done"
    /\ TotalTrue > limiter.max - 1
    /\ TotalCalls > limiter.max + 1

====
